---------------------------- MODULE Spec2Model ----------------------------
(***************************************************************************)
(* The request lifecycle of the useLLM hook (src/src/useLLM.ts, the        *)
(* version with onComplete / onError callbacks, lines 213-407): send,      *)
(* stop, and the readStream loop, with the fetch and the byte reader as    *)
(* the environment.                                                        *)
(*                                                                         *)
(* Text is a sequence of Unicode code points, a chunk is a sequence of     *)
(* bytes.  JavaScript runs each continuation to its next await without     *)
(* interleaving, so an action is one such run: send up to `await fetch`,   *)
(* the continuation of fetch up to the first `await reader.read()`, and    *)
(* the continuation of each read up to the next one or to the return.      *)
(***************************************************************************)
EXTENDS Integers, Sequences, FiniteSets

(***************************************************************************)
(* Bounds of the model.                                                    *)
(***************************************************************************)
\* the calls whose local state the model holds at one time
MaxCalls == 2
\* the reads that deliver a value, per call
MaxChunks == 2
\* the count of idle going from false to true during one call stops here
MaxRises == 2

Calls == 1..MaxCalls

(***************************************************************************)
(* Strings of the program, as code points.                                 *)
(***************************************************************************)
\* "Error:"
Sentinel == <<69, 114, 114, 111, 114, 58>>
\* "Error: Network error for service. ("
NetworkErrorPrefix ==
    <<69, 114, 114, 111, 114, 58, 32, 78, 101, 116, 119, 111, 114, 107, 32,
      101, 114, 114, 111, 114, 32, 102, 111, 114, 32, 115, 101, 114, 118,
      105, 99, 101, 46, 32, 40>>
\* "Error: Having trouble connecting to chat service. ("
ConnectErrorPrefix ==
    <<69, 114, 114, 111, 114, 58, 32, 72, 97, 118, 105, 110, 103, 32, 116,
      114, 111, 117, 98, 108, 101, 32, 99, 111, 110, 110, 101, 99, 116, 105,
      110, 103, 32, 116, 111, 32, 99, 104, 97, 116, 32, 115, 101, 114, 118,
      105, 99, 101, 46, 32, 40>>
\* "Read error: "
ReadErrorPrefix == <<82, 101, 97, 100, 32, 101, 114, 114, 111, 114, 58, 32>>
\* " " and ")"
Space == <<32>>
CloseParen == <<41>>
\* "0123456789"
Digits == <<48, 49, 50, 51, 52, 53, 54, 55, 56, 57>>

(***************************************************************************)
(* String operations of JavaScript used by the program.                    *)
(***************************************************************************)
\* s.startsWith(p)
startsWith(s, p) == Len(p) <= Len(s) /\ SubSeq(s, 1, Len(p)) = p

\* s.substring(n)
substring(s, n) == SubSeq(s, n + 1, Len(s))

\* `${n}` of a non-negative integer
RECURSIVE NumToString(_)
NumToString(n) ==
    IF n < 10 THEN <<Digits[n + 1]>>
    ELSE NumToString(n \div 10) \o <<Digits[(n % 10) + 1]>>

\* s occurs in t (s.includes)
includes(t, s) ==
    \E i \in 0..(Len(t) - Len(s)) : SubSeq(t, i + 1, i + Len(s)) = s

\* s is a prefix of t
IsPrefix(s, t) == startsWith(t, s)

(***************************************************************************)
(* decoder.decode(value) of a TextDecoder("utf-8"), called without         *)
(* {stream: true}: every call decodes its bytes on their own, an           *)
(* incomplete or ill-formed sequence becomes U+FFFD, a leading byte order  *)
(* mark is dropped.  decode(undefined) is decode of no bytes.              *)
(***************************************************************************)
RECURSIVE Utf8(_, _, _, _, _, _, _, _)
Utf8(bytes, i, needed, seen, cp, lower, upper, out) ==
    IF i > Len(bytes)
    THEN IF needed # 0 THEN Append(out, 65533) ELSE out
    ELSE LET b == bytes[i] IN
         IF needed = 0
         THEN IF b <= 127 THEN Utf8(bytes, i + 1, 0, 0, 0, 128, 191, Append(out, b))
              ELSE IF b >= 194 /\ b <= 223
                   THEN Utf8(bytes, i + 1, 1, 0, b % 32, 128, 191, out)
              ELSE IF b >= 224 /\ b <= 239
                   THEN Utf8(bytes, i + 1, 2, 0, b % 16,
                             IF b = 224 THEN 160 ELSE 128,
                             IF b = 237 THEN 159 ELSE 191, out)
              ELSE IF b >= 240 /\ b <= 244
                   THEN Utf8(bytes, i + 1, 3, 0, b % 8,
                             IF b = 240 THEN 144 ELSE 128,
                             IF b = 244 THEN 143 ELSE 191, out)
              ELSE Utf8(bytes, i + 1, 0, 0, 0, 128, 191, Append(out, 65533))
         ELSE IF b < lower \/ b > upper
              \* the byte is put back and read again with the decoder reset
              THEN Utf8(bytes, i, 0, 0, 0, 128, 191, Append(out, 65533))
              ELSE IF seen + 1 = needed
                   THEN Utf8(bytes, i + 1, 0, 0, 0, 128, 191,
                             Append(out, cp * 64 + (b % 64)))
                   ELSE Utf8(bytes, i + 1, needed, seen + 1,
                             cp * 64 + (b % 64), 128, 191, out)

decode(value) ==
    LET out == Utf8(value, 1, 0, 0, 0, 128, 191, <<>>)
    IN  IF out # <<>> /\ out[1] = 65279 THEN Tail(out) ELSE out

(***************************************************************************)
(* The environment: what the server and the transport can answer.          *)
(***************************************************************************)
\* "caf" and the first byte of U+00E9, then its second byte: "café" in two
\* chunks, cut inside the character
ChunkCaf == <<99, 97, 102, 195>>
ChunkA9 == <<169>>
\* "Error: rate limited": a server-side error in one chunk
ChunkErrorRateLimited ==
    <<69, 114, 114, 111, 114, 58, 32, 114, 97, 116, 101, 32, 108, 105, 109,
      105, 116, 101, 100>>
\* "Err", "or: x": the same kind of error cut in two
ChunkErr == <<69, 114, 114>>
ChunkOrX == <<111, 114, 58, 32, 120>>
\* "Error:" and nothing after it
ChunkErrorOnly == <<69, 114, 114, 111, 114, 58>>

Chunks ==
    { ChunkCaf, ChunkA9, ChunkErr, ChunkOrX, ChunkErrorRateLimited,
      ChunkErrorOnly }

\* value of a read that reports done: undefined, decoded as no bytes
NoValue == <<>>

\* responses with response.ok false: status and statusText
\* "Service Unavailable"
FailedResponses ==
    { [status |-> 503,
       statusText |-> <<83, 101, 114, 118, 105, 99, 101, 32, 85, 110, 97, 118,
                        97, 105, 108, 97, 98, 108, 101>>] }

\* the x-callId header of a response: absent (get returns null) or a value
CallIdHeaders == { {}, {"call-1"} }

\* what fetch rejects with: "Failed to fetch", "The user aborted a request."
FetchErrors ==
    { [name |-> "TypeError",
       message |-> <<70, 97, 105, 108, 101, 100, 32, 116, 111, 32, 102, 101,
                     116, 99, 104>>],
      [name |-> "AbortError",
       message |-> <<84, 104, 101, 32, 117, 115, 101, 114, 32, 97, 98, 111,
                     114, 116, 101, 100, 32, 97, 32, 114, 101, 113, 117, 101,
                     115, 116, 46>>] }

\* what reader.read() rejects with: "network error", "The user aborted a request."
ReadErrors ==
    { [name |-> "TypeError",
       message |-> <<110, 101, 116, 119, 111, 114, 107, 32, 101, 114, 114,
                     111, 114>>],
      [name |-> "AbortError",
       message |-> <<84, 104, 101, 32, 117, 115, 101, 114, 32, 97, 98, 111,
                     114, 116, 101, 100, 32, 97, 32, 114, 101, 113, 117, 101,
                     115, 116, 46>>] }

\* an absent value: undefined, as the empty set; a present value x as {x}
Undefined == {}

\* the values of LLMServiceType: each field given or not
\* the value null, as a present value
Null == {"null"}

Configs ==
    [project_id : {Undefined, {"proj-1"}},
     customer : {Undefined, {"cust-1"}},
     url : {Undefined, {"https://llm.test/"}},
     agent : {Undefined, Null, {"agent-1"}}]

\* the arguments service and conversation of send; null is their default
Services == {Null, {"svc-1"}}
Conversations == {Null, {"conv-1"}}

\* what a provider supplies, and what useLLM is called with
ConfigInputs == {Undefined} \cup { {cfg} : cfg \in Configs }

DefaultOptions ==
    [project_id |-> {"proj-1"}, customer |-> Undefined, url |-> Undefined,
     agent |-> Undefined]

(***************************************************************************)
(* State.                                                                  *)
(***************************************************************************)
VARIABLES
    \* the hook's state (useState)
    response, idle, error, lastCallId,
    \* per call: where the call is, and the arguments of send
    pc, stream, onComplete, onError, aborted,
    \* per call: the locals of send and readStream
    errorInFetch, errorInRead, result,
    \* per call: how the call ended, and what send resolved to
    exit, returned,
    \* per call: the byte reader, and the reads it has settled
    reads, readerCancelled, lockReleased,
    \* per call: what the caller observed
    callbacks, errorWritten, idleRises, stopped,
    \* the construction of the hook: the value of useContext(LLMService), the
    \* argument of useLLM, the configuration chosen, and how useLLM ended
    ambient, options, context, hook,
    \* the call that send started last, and the request it posted
    latest, request

hookVars == <<response, idle, error, lastCallId>>
argVars == <<stream, onComplete, onError>>
configVars == <<ambient, options, context, hook>>
sentVars == <<latest, request>>
vars ==
    <<response, idle, error, lastCallId, pc, stream, onComplete, onError,
      aborted, errorInFetch, errorInRead, result, exit, returned, reads,
      readerCancelled, lockReleased, callbacks, errorWritten, idleRises,
      stopped, ambient, options, context, hook, latest, request>>

InFlight(c) == pc[c] \in {"fetching", "reading"}

Pending == [kind |-> "pending", text |-> <<>>]

\* (variant: the argument preferred over the ambient value)
ResolveContextOptionsFirst(amb, opt) == IF opt # {} THEN opt ELSE amb

\* `let context = useContext(LLMService); if (!context) context = options;`
ResolveContext(amb, opt) == IF amb # {} THEN amb ELSE opt

\* how useLLM ends with the configuration ctx: `if (!context) throw`
Constructed(ctx) == IF ctx = {} THEN "threw" ELSE "ready"

\* the useState values of a hook
InitCallState ==
    /\ response = <<>>
    /\ idle = TRUE
    /\ error = <<>>
    /\ lastCallId = ""
    /\ pc = [c \in Calls |-> "free"]
    /\ stream = [c \in Calls |-> TRUE]
    /\ onComplete = [c \in Calls |-> FALSE]
    /\ onError = [c \in Calls |-> FALSE]
    /\ aborted = [c \in Calls |-> FALSE]
    /\ errorInFetch = [c \in Calls |-> <<>>]
    /\ errorInRead = [c \in Calls |-> <<>>]
    /\ result = [c \in Calls |-> <<>>]
    /\ exit = [c \in Calls |-> "none"]
    /\ returned = [c \in Calls |-> Pending]
    /\ reads = [c \in Calls |-> <<>>]
    /\ readerCancelled = [c \in Calls |-> FALSE]
    /\ lockReleased = [c \in Calls |-> FALSE]
    /\ callbacks = [c \in Calls |-> <<>>]
    /\ errorWritten = [c \in Calls |-> FALSE]
    /\ idleRises = [c \in Calls |-> 0]
    /\ stopped = [c \in Calls |-> FALSE]
    /\ latest = 0
    /\ request = Undefined

\* a hook constructed outside any provider with the options DefaultOptions
Init ==
    /\ InitCallState
    /\ ambient = Undefined
    /\ options = {DefaultOptions}
    /\ context = ResolveContext(ambient, options)
    /\ hook = Constructed(context)

\* the observations: idle going from false to true while a call is in flight,
\* counted up to MaxRises
CountRises(newIdle) ==
    [c \in Calls |->
        IF InFlight(c) /\ ~idle /\ newIdle /\ idleRises[c] < MaxRises
        THEN idleRises[c] + 1
        ELSE idleRises[c]]

(***************************************************************************)
(* Parts of send and readStream, as the code computes them.                *)
(***************************************************************************)
\* (variant: an absent header leaves the correlation id as it was)
CoalesceKeepsPrevious(h, d) == IF h = {} THEN lastCallId ELSE CHOOSE x \in h : TRUE

\* h ?? d, for the value of headers.get
Coalesce(h, d) == IF h = {} THEN d ELSE CHOOSE x \in h : TRUE

\* `Error: Network error for service. (${response.status} ${response.statusText})`
NetworkErrorText(r) ==
    NetworkErrorPrefix \o NumToString(r.status) \o Space \o r.statusText
        \o CloseParen

\* `Error: Having trouble connecting to chat service. (${errorObject.message})`
ConnectErrorText(e) == ConnectErrorPrefix \o e.message \o CloseParen

\* (variant: an AbortError is recorded like any other exception)
ReadErrorTextAbortToo(e) == ReadErrorPrefix \o e.message

\* the catch block of the read loop: the error text an exception leaves
ReadErrorText(e) ==
    IF e.name # "AbortError" THEN ReadErrorPrefix \o e.message ELSE <<>>

\* (variant: the flag is read the wrong way round)
PublishedWhenBatched(s, old, res) == IF ~s THEN res ELSE old

\* (variant: a chunk is published only while idle is false)
PublishedWhileBusy(s, old, res) == IF s /\ ~idle THEN res ELSE old

\* (variant: no chunk is published)
PublishedNever(s, old, res) == old

\* if (stream) setResponse(result): the response text after a chunk
Published(s, old, res) == IF s THEN res ELSE old

\* (variant: no chunk is taken for the sentinel)
SentinelFoundNever(decoded, res) == FALSE

\* decoded.startsWith("Error:")
SentinelFound(decoded, res) == startsWith(decoded, Sentinel)

\* (variant: the whole chunk is recorded)
SentinelRemainderWhole(decoded) == decoded

\* errorInRead = decoded.substring(6)
SentinelRemainder(decoded) == substring(decoded, 6)

\* { value, done } of a settled reader.read()
ReadResult(value, done) == [value |-> value, done |-> done]

\* one callback call: which, its argument, and idle as the callback sees it
Callback(which, arg, idleNow) == [cb |-> which, arg |-> arg, idle |-> idleNow]

\* (variant: onComplete is left out when an error was recorded)
EndCallbacksSkipCompleteOnError(c, res, err) ==
    IF err # <<>>
    THEN (IF onError[c] THEN <<Callback("onError", err, TRUE)>> ELSE <<>>)
    ELSE (IF onComplete[c] THEN <<Callback("onComplete", res, TRUE)>> ELSE <<>>)

\* (variant: onComplete is called before onError, and before setIdle)
EndCallbacksCompleteFirst(c, res, err) ==
    (IF onComplete[c] THEN <<Callback("onComplete", res, idle)>> ELSE <<>>)
    \o (IF err # <<>> /\ onError[c] THEN <<Callback("onError", err, TRUE)>>
        ELSE <<>>)

\* (variant: onError is called whenever the loop ended on the sentinel or an
\* exception, also with an empty error text)
EndCallbacksErrorAlways(c, res, err) ==
    (IF onError[c] THEN <<Callback("onError", err, TRUE)>> ELSE <<>>)
    \o (IF onComplete[c] THEN <<Callback("onComplete", res, TRUE)>> ELSE <<>>)

\* the callbacks the end of readStream calls, in order
EndCallbacks(c, res, err) ==
    (IF err # <<>> /\ onError[c] THEN <<Callback("onError", err, TRUE)>>
     ELSE <<>>)
    \o (IF onComplete[c] THEN <<Callback("onComplete", res, TRUE)>> ELSE <<>>)

\* what send resolves to once readStream has been started
SendResult(c, res) ==
    IF stream[c] THEN [kind |-> "reader", text |-> <<>>]
    ELSE [kind |-> "text", text |-> res]

\* (variant: the loop's end sets idle only when no other call is in flight)
IdleAtEndWhenLast(c) == idle \/ \A d \in Calls \ {c} : ~InFlight(d)

\* (variant: the loop's end leaves idle as it is)
IdleAtEndUnchanged(c) == idle

\* setIdle(true) after the loop
IdleAtEnd(c) == TRUE

\* the object send builds for the body, each value present, null or undefined
RequestObject(ctx, service, conversation) ==
    LET cfg == CHOOSE x \in ctx : TRUE
    IN  [projectId |-> {Coalesce(cfg.project_id, "")},
         serviceId |-> service,
         agentId |-> cfg.agent,
         prompt |-> {"prompt"},
         messages |-> {"[]"},
         data |-> {"[]"},
         customer |-> {Coalesce(cfg.customer, "{}")},
         allowCaching |-> {"true"},
         conversationId |-> conversation,
         tools |-> {"[]"}]

\* JSON.stringify(obj): a property whose value is undefined is left out, a
\* property whose value is null is written as null
Stringify(obj) == [k \in {j \in DOMAIN obj : obj[j] # Undefined} |-> obj[k]]

\* (variant: send clears the error field)
ErrorAtSendCleared == <<>>

\* send does not write the error field
ErrorAtSend == error

\* (variant: send leaves the response text of the previous call)
ResetResponseKept == response

\* `setResponse("")` at the start of send
ResetResponse == <<>>

\* (variant: send awaits readStream in streaming mode too)
SendResultWhileReadingAwaited(c) == Pending

\* what send has returned once readStream is at its first read: the reader
\* (`readStream(...); return reader;`), or nothing yet (`return await`)
SendResultWhileReading(c) ==
    IF stream[c] THEN [kind |-> "reader", text |-> <<>>] ELSE Pending

\* (variant: the loop does not look at the signal)
AbortSeenNever(c) == FALSE

\* `if (signal.aborted)` at the top of an iteration of readStream's loop
AbortSeen(c) == aborted[c]

\* (variant: the end of the stream is tested before the sentinel)
LoopExitDoneFirst(c, decoded, res, done) ==
    IF done THEN "eos"
    ELSE IF SentinelFound(decoded, res) THEN "sentinel"
    ELSE IF AbortSeen(c) THEN "abortTop"
    ELSE "none"

\* the break one iteration of readStream's loop takes after its read settled
\* with a value, in the order of the code: the sentinel, done, and the
\* signal at the top of the next iteration; "none" when the loop reads on
LoopExit(c, decoded, res, done) ==
    IF SentinelFound(decoded, res) THEN "sentinel"
    ELSE IF done THEN "eos"
    ELSE IF AbortSeen(c) THEN "abortTop"
    ELSE "none"

(***************************************************************************)
(* useLLM(options) in a component whose nearest provider gives ambient:    *)
(* the configuration is chosen, and useLLM throws or returns send and      *)
(* stop.                                                                   *)
(***************************************************************************)
UseLLM ==
    /\ hook = "unconstructed"
    /\ context' = ResolveContext(ambient, options)
    /\ hook' = Constructed(context')
    /\ UNCHANGED <<hookVars, pc, argVars, aborted, errorInFetch, errorInRead,
                   result, exit, returned, reads, readerCancelled,
                   lockReleased, callbacks, errorWritten, idleRises, stopped,
                   ambient, options, sentVars>>

(***************************************************************************)
(* send, up to `await fetch(url, options)`.                                *)
(***************************************************************************)
SendTo(c, s, oc, oe, service, conversation) ==
    /\ hook = "ready"
    /\ pc[c] \in {"free", "done"}
    /\ \A d \in Calls : d < c => InFlight(d)
    /\ response' = ResetResponse
    /\ idle' = FALSE
    /\ pc' = [pc EXCEPT ![c] = "fetching"]
    /\ stream' = [stream EXCEPT ![c] = s]
    /\ onComplete' = [onComplete EXCEPT ![c] = oc]
    /\ onError' = [onError EXCEPT ![c] = oe]
    /\ aborted' = [aborted EXCEPT ![c] = FALSE]
    /\ errorInFetch' = [errorInFetch EXCEPT ![c] = <<>>]
    /\ errorInRead' = [errorInRead EXCEPT ![c] = <<>>]
    /\ result' = [result EXCEPT ![c] = <<>>]
    /\ exit' = [exit EXCEPT ![c] = "none"]
    /\ returned' = [returned EXCEPT ![c] = Pending]
    /\ reads' = [reads EXCEPT ![c] = <<>>]
    /\ readerCancelled' = [readerCancelled EXCEPT ![c] = FALSE]
    /\ lockReleased' = [lockReleased EXCEPT ![c] = FALSE]
    /\ callbacks' = [callbacks EXCEPT ![c] = <<>>]
    /\ errorWritten' = [errorWritten EXCEPT ![c] = FALSE]
    /\ idleRises' = [idleRises EXCEPT ![c] = 0]
    /\ stopped' = [stopped EXCEPT ![c] = FALSE]
    /\ error' = ErrorAtSend
    /\ latest' = c
    /\ request' =
         {[service |-> service, conversation |-> conversation,
           body |-> Stringify(RequestObject(context, service, conversation))]}
    /\ UNCHANGED <<lastCallId, configVars>>

\* send with service and conversation left at their defaults
Send(c, s, oc, oe) == SendTo(c, s, oc, oe, Null, Null)

(***************************************************************************)
(* send after a failed fetch: `if (errorInFetch !== "")` to the end.       *)
(***************************************************************************)
\* (variant: the catch block throws the failure on to the caller)
SendFailsRethrows(c, text, how) ==
    /\ errorInFetch' = [errorInFetch EXCEPT ![c] = text]
    /\ returned' = [returned EXCEPT ![c] = [kind |-> "rejected", text |-> text]]
    /\ exit' = [exit EXCEPT ![c] = how]
    /\ pc' = [pc EXCEPT ![c] = "done"]
    /\ UNCHANGED <<hookVars, argVars, aborted, errorInRead, result, reads,
                   readerCancelled, lockReleased, callbacks, errorWritten,
                   idleRises, stopped, configVars, sentVars>>

SendFails(c, text, how) ==
    /\ errorInFetch' = [errorInFetch EXCEPT ![c] = text]
    /\ error' = text
    /\ errorWritten' = [errorWritten EXCEPT ![c] = TRUE]
    /\ callbacks' =
         [callbacks EXCEPT ![c] =
            IF onError[c] THEN <<Callback("onError", text, idle)>> ELSE <<>>]
    /\ returned' = [returned EXCEPT ![c] = [kind |-> "undefined", text |-> <<>>]]
    /\ exit' = [exit EXCEPT ![c] = how]
    /\ pc' = [pc EXCEPT ![c] = "done"]
    /\ UNCHANGED <<response, idle, lastCallId, argVars, aborted, errorInRead,
                   result, reads, readerCancelled, lockReleased,
                   idleRises, stopped, configVars, sentVars>>

\* fetch resolves with response.ok false
FetchNotOk(c, r) ==
    /\ pc[c] = "fetching"
    /\ SendFails(c, NetworkErrorText(r), "fetchNotOk")

\* fetch rejects; with an AbortError only when the signal is aborted
FetchThrows(c, e) ==
    /\ pc[c] = "fetching"
    /\ e.name = "AbortError" => aborted[c]
    /\ SendFails(c, ConnectErrorText(e),
                 IF e.name = "AbortError" THEN "fetchAbortError"
                 ELSE "fetchThrows")

(***************************************************************************)
(* readStream from the end of its loop to its return: how is the break     *)
(* taken, cancelled whether the loop called reader.cancel(), released      *)
(* whether a finally block called reader.releaseLock().                    *)
(***************************************************************************)
ReadStreamEnd(c, res, err, how, cancelled, released) ==
    /\ idle' = IdleAtEnd(c)
    /\ error' = IF err # <<>> THEN err ELSE error
    /\ errorWritten' = [errorWritten EXCEPT ![c] = err # <<>>]
    /\ readerCancelled' = [readerCancelled EXCEPT ![c] = cancelled \/ err # <<>>]
    /\ lockReleased' = [lockReleased EXCEPT ![c] = released]
    /\ callbacks' = [callbacks EXCEPT ![c] = EndCallbacks(c, res, err)]
    /\ result' = [result EXCEPT ![c] = res]
    /\ errorInRead' = [errorInRead EXCEPT ![c] = err]
    /\ exit' = [exit EXCEPT ![c] = how]
    /\ returned' = [returned EXCEPT ![c] = SendResult(c, res)]
    /\ pc' = [pc EXCEPT ![c] = "done"]
    /\ idleRises' = CountRises(IdleAtEnd(c))
    /\ UNCHANGED <<argVars, aborted, errorInFetch, stopped, configVars,
                   sentVars>>

(***************************************************************************)
(* send after fetch resolved with response.ok, and readStream up to its    *)
(* first `await reader.read()`.                                            *)
(***************************************************************************)
FetchOk(c, header) ==
    /\ pc[c] = "fetching"
    /\ lastCallId' = Coalesce(header, "")
    /\ UNCHANGED <<response, reads>>
    /\ IF AbortSeen(c)
       THEN ReadStreamEnd(c, <<>>, <<>>, "abortTop", TRUE, TRUE)
       ELSE /\ idle' = FALSE
            /\ pc' = [pc EXCEPT ![c] = "reading"]
            /\ returned' = [returned EXCEPT ![c] = SendResultWhileReading(c)]
            /\ UNCHANGED <<error, argVars, aborted, errorInFetch, errorInRead,
                           result, exit, readerCancelled, lockReleased,
                           callbacks, errorWritten, idleRises, stopped,
                           configVars, sentVars>>

(***************************************************************************)
(* readStream from the settling of one reader.read() to the next one, or   *)
(* to its return.                                                          *)
(***************************************************************************)
Read(c, value, done) ==
    /\ pc[c] = "reading"
    /\ ~done => value # NoValue
    /\ value # NoValue => Len(reads[c]) < MaxChunks
    /\ LET decoded == decode(value)
           res == result[c] \o decoded
           how == LoopExit(c, decoded, res, done)
       IN  /\ response' = Published(stream[c], response, res)
           /\ reads' = [reads EXCEPT ![c] = Append(@, ReadResult(value, done))]
           /\ UNCHANGED lastCallId
           /\ IF how = "sentinel"
              THEN ReadStreamEnd(c, res, SentinelRemainder(decoded),
                                 "sentinel", FALSE, aborted[c])
              ELSE IF how = "eos"
              THEN ReadStreamEnd(c, res, <<>>, "eos", FALSE, aborted[c])
              ELSE IF how = "abortTop"
              THEN ReadStreamEnd(c, res, <<>>, "abortTop", TRUE, TRUE)
              ELSE /\ result' = [result EXCEPT ![c] = res]
                   /\ UNCHANGED <<idle, error, pc, argVars, aborted,
                                  errorInFetch, errorInRead, exit, returned,
                                  readerCancelled, lockReleased, callbacks,
                                  errorWritten, idleRises, stopped,
                                  configVars, sentVars>>

\* reader.read() rejects; with an AbortError only when the signal is aborted
ReadThrows(c, e) ==
    /\ pc[c] = "reading"
    /\ e.name = "AbortError" => aborted[c]
    /\ ReadStreamEnd(c, result[c], ReadErrorText(e),
                     IF e.name = "AbortError" THEN "abortError" ELSE "readError",
                     FALSE, aborted[c])
    /\ UNCHANGED <<response, lastCallId, reads>>

(***************************************************************************)
(* The caller: stop, and abort() on the controller of a call in flight.    *)
(***************************************************************************)
\* (variant: stop also clears the response text)
StopEffectClearsResponse(newAborted) ==
    /\ hook = "ready"
    /\ aborted' = newAborted
    /\ idle' = TRUE
    /\ response' = <<>>
    /\ idleRises' = CountRises(TRUE)
    /\ stopped' = [d \in Calls |-> stopped[d] \/ InFlight(d)]
    /\ UNCHANGED <<error, lastCallId, pc, argVars, errorInFetch,
                   errorInRead, result, exit, returned, reads,
                   readerCancelled, lockReleased, callbacks, errorWritten,
                   configVars, sentVars>>

StopEffect(newAborted) ==
    /\ hook = "ready"
    /\ aborted' = newAborted
    /\ idle' = TRUE
    /\ idleRises' = CountRises(TRUE)
    /\ stopped' = [d \in Calls |-> stopped[d] \/ InFlight(d)]
    /\ UNCHANGED <<response, error, lastCallId, pc, argVars, errorInFetch,
                   errorInRead, result, exit, returned, reads,
                   readerCancelled, lockReleased, callbacks, errorWritten,
                   configVars, sentVars>>

\* stop(controller) with the controller given to call c, which is in flight
Stop(c) ==
    /\ InFlight(c)
    /\ StopEffect([aborted EXCEPT ![c] = TRUE])

\* stop(null), or stop with a controller that no call in flight was given:
\* its signal is read by no loop
StopNull == StopEffect(aborted)

\* abortController.abort() by the caller
Abort(c) ==
    /\ InFlight(c)
    /\ ~aborted[c]
    /\ aborted' = [aborted EXCEPT ![c] = TRUE]
    /\ UNCHANGED <<hookVars, pc, argVars, errorInFetch, errorInRead, result,
                   exit, returned, reads, readerCancelled, lockReleased,
                   callbacks, errorWritten, idleRises, stopped, configVars,
                   sentVars>>

(***************************************************************************)
(* Specifications.  Spec: the caller starts a call only when none is in    *)
(* flight.  SpecOverlap: the caller starts calls at any time, against a     *)
(* server that answers with two kinds of chunk and a conforming reader.    *)
(***************************************************************************)
NoCallInFlight == \A c \in Calls : ~InFlight(c)

\* send by a caller that waits for idle calls only
SendAlone(c, s, oc, oe) == NoCallInFlight /\ Send(c, s, oc, oe)

\* the same with a service and a conversation given or not
SendAloneTo(c, s, oc, oe, service, conversation) ==
    NoCallInFlight /\ SendTo(c, s, oc, oe, service, conversation)

Environment ==
    \/ \E c \in Calls, r \in FailedResponses : FetchNotOk(c, r)
    \/ \E c \in Calls, e \in FetchErrors : FetchThrows(c, e)
    \/ \E c \in Calls, h \in CallIdHeaders : FetchOk(c, h)
    \/ \E c \in Calls, v \in Chunks \cup {NoValue}, d \in BOOLEAN : Read(c, v, d)
    \/ \E c \in Calls, e \in ReadErrors : ReadThrows(c, e)
    \/ \E c \in Calls : Stop(c)
    \/ StopNull
    \/ \E c \in Calls : Abort(c)

Next ==
    \/ \E c \in Calls, s \in BOOLEAN, oc \in BOOLEAN, oe \in BOOLEAN :
          SendAlone(c, s, oc, oe)
    \/ Environment

Spec == Init /\ [][Next]_vars

\* a component about to call useLLM: any provider value, any argument
InitConfig ==
    /\ InitCallState
    /\ ambient \in ConfigInputs
    /\ options \in ConfigInputs
    /\ context = Undefined
    /\ hook = "unconstructed"

\* construction, and then what the caller can do with what useLLM returned
NextConfig ==
    \/ UseLLM
    \/ \E c \in Calls, s \in BOOLEAN, sv \in Services, cv \in Conversations :
          SendAloneTo(c, s, FALSE, FALSE, sv, cv)
    \/ \E c \in Calls, r \in FailedResponses : FetchNotOk(c, r)
    \/ StopNull

SpecConfig == InitConfig /\ [][NextConfig]_vars

\* the pending read of a call whose signal is aborted settles: with a chunk,
\* with the end of the stream, or by rejecting
SettleAfterAbort ==
    \E c \in Calls :
        /\ aborted[c]
        /\ \/ \E v \in Chunks \cup {NoValue}, d \in BOOLEAN : Read(c, v, d)
           \/ \E e \in ReadErrors : ReadThrows(c, e)

\* Spec with every read that is pending after an abort settling in the end
SpecCancel == Spec /\ WF_vars(SettleAfterAbort)

\* the answers of the server when calls overlap: the two halves of one text
OverlapChunks == { ChunkErr, ChunkOrX }

NextOverlap ==
    \/ \E c \in Calls, s \in BOOLEAN : Send(c, s, TRUE, TRUE)
    \/ \E c \in Calls, r \in FailedResponses : FetchNotOk(c, r)
    \/ \E c \in Calls, h \in CallIdHeaders : FetchOk(c, h)
    \/ \E c \in Calls, v \in OverlapChunks : Read(c, v, FALSE)
    \/ \E c \in Calls : Read(c, NoValue, TRUE)

SpecOverlap == Init /\ [][NextOverlap]_vars

(***************************************************************************)
(* What the properties below read off a state.                             *)
(***************************************************************************)
\* the ways readStream ends: the Stream Consumer's terminal states
ConsumerExits == {"abortTop", "abortError", "sentinel", "readError", "eos"}

\* call c's POST succeeded and its Stream Consumer has terminated
ConsumerTerminated(c) == pc[c] = "done" /\ exit[c] \in ConsumerExits

\* the text of the chunks the reader handed over, each decoded, in order
RECURSIVE DecodedConcat(_)
DecodedConcat(rs) ==
    IF rs = <<>> THEN <<>>
    ELSE decode(Head(rs).value) \o DecodedConcat(Tail(rs))

\* the calls of one callback that call c made
CallsOf(c, which) == SelectSeq(callbacks[c], LAMBDA e : e.cb = which)

\* the reader behaved like a ReadableStream reader: a done read has no value
ConformingReader(c) ==
    \A i \in DOMAIN reads[c] : reads[c][i].done => reads[c][i].value = NoValue

(***************************************************************************)
(* C1.  Over send, fetch outcomes, reads, aborts and stops, one call at a  *)
(* time: idle is false from the start of send until the call's terminal    *)
(* event (end of stream, sentinel error, network error, cancellation) and  *)
(* true from then until the next send.  A stop is taken as the             *)
(* cancellation event, so a call that was stopped may already show idle.   *)
(***************************************************************************)
C1_IdleFalseExactlyDuringCall ==
    /\ \A c \in Calls : InFlight(c) /\ ~stopped[c] => ~idle
    /\ NoCallInFlight => idle

(***************************************************************************)
(* C2.  A call whose POST succeeded and whose Stream Consumer terminated   *)
(* has called onComplete, if supplied, exactly once, with the final        *)
(* accumulated text (the decoded chunks in order); while the consumer is   *)
(* still reading, onComplete has not been called.                          *)
(***************************************************************************)
C2_OnCompleteOnceWithFinalText ==
    \A c \in Calls :
        /\ ConsumerTerminated(c) /\ onComplete[c] =>
              /\ Len(CallsOf(c, "onComplete")) = 1
              /\ CallsOf(c, "onComplete")[1].arg = DecodedConcat(reads[c])
              /\ result[c] = DecodedConcat(reads[c])
        /\ pc[c] = "reading" => CallsOf(c, "onComplete") = <<>>
        /\ ~onComplete[c] => CallsOf(c, "onComplete") = <<>>

\* a call that ended on a read exception after a chunk, onComplete supplied
C2_Witness ==
    \E c \in Calls :
        /\ ConsumerTerminated(c) /\ exit[c] = "readError" /\ onComplete[c]
        /\ reads[c] # <<>>
        /\ Len(CallsOf(c, "onComplete")) = 1

(***************************************************************************)
(* C3, as stated.  A terminated call with both callbacks supplied has      *)
(* called exactly one of onComplete and onError, once.                     *)
(***************************************************************************)
C3_ExactlyOneNotification ==
    \A c \in Calls :
        ConsumerTerminated(c) /\ onComplete[c] /\ onError[c] =>
            Len(callbacks[c]) = 1

\* the Stream Consumer recorded an error text: a read exception other than
\* AbortError, or a sentinel chunk with text after "Error:"
ErrorRecorded(c) ==
    \/ exit[c] = "readError"
    \/ /\ exit[c] = "sentinel"
       /\ Len(decode(reads[c][Len(reads[c])].value)) > Len(Sentinel)

(***************************************************************************)
(* C3, amended.  A terminated call with both callbacks supplied has called *)
(* onComplete exactly once; it has called onError exactly once if an error *)
(* text was recorded and not at all otherwise.  So a call ends with        *)
(* onComplete alone or with both, never with onError alone or neither.     *)
(***************************************************************************)
C3_CompleteAlwaysErrorWhenRecorded ==
    \A c \in Calls :
        ConsumerTerminated(c) /\ onComplete[c] /\ onError[c] =>
            /\ Len(CallsOf(c, "onComplete")) = 1
            /\ Len(CallsOf(c, "onError")) = IF ErrorRecorded(c) THEN 1 ELSE 0

\* a call that ended on the sentinel and called both callbacks
C3_Witness ==
    \E c \in Calls :
        /\ ConsumerTerminated(c) /\ exit[c] = "sentinel"
        /\ onComplete[c] /\ onError[c]
        /\ Len(callbacks[c]) = 2

\* the last read of call c, decoded
LastDecoded(c) == decode(reads[c][Len(reads[c])].value)

\* s without its leading white space
RECURSIVE TrimStart(_)
TrimStart(s) ==
    IF s # <<>> /\ Head(s) \in {9, 10, 13, 32} THEN TrimStart(Tail(s)) ELSE s

(***************************************************************************)
(* C4.  Whenever the chunks read so far, decoded and concatenated, start   *)
(* with "Error:", however the chunks are cut, the consumer has ended on    *)
(* the sentinel at once: no further read, the accumulated text is that     *)
(* concatenation, onComplete got it, and onError got the text after the    *)
(* sentinel (conceded here when that text is empty).                       *)
(***************************************************************************)
C4_SentinelHoweverSplit ==
    \A c \in Calls :
        /\ pc[c] = "reading" \/ ConsumerTerminated(c)
        /\ startsWith(DecodedConcat(reads[c]), Sentinel)
        => /\ pc[c] = "done"
           /\ exit[c] = "sentinel"
           /\ result[c] = DecodedConcat(reads[c])
           /\ onComplete[c] =>
                 CallsOf(c, "onComplete")
                    = <<Callback("onComplete", DecodedConcat(reads[c]), TRUE)>>
           /\ onError[c] /\ Len(DecodedConcat(reads[c])) > Len(Sentinel) =>
                 /\ Len(CallsOf(c, "onError")) = 1
                 /\ CallsOf(c, "onError")[1].arg
                      = substring(DecodedConcat(reads[c]), Len(Sentinel))

(***************************************************************************)
(* C5.  The consumer ends on the sentinel only when the accumulated text,  *)
(* from the start of the stream, begins with "Error:"; a chunk that begins *)
(* with "Error:" after other text is ordinary content.                     *)
(***************************************************************************)
C5_SentinelOnlyAtStartOfText ==
    \A c \in Calls :
        ConsumerTerminated(c) /\ exit[c] = "sentinel" =>
            startsWith(result[c], Sentinel)

(***************************************************************************)
(* C6.  When a stream triggers the sentinel and an error is recorded, the  *)
(* error field and the argument of onError are the text after "Error:"     *)
(* without its leading white space: "Error: rate limited" gives            *)
(* "rate limited".                                                         *)
(***************************************************************************)
C6_ErrorTextStripped ==
    \A c \in Calls :
        ConsumerTerminated(c) /\ exit[c] = "sentinel" /\ errorWritten[c] =>
            /\ error = TrimStart(substring(LastDecoded(c), Len(Sentinel)))
            /\ onError[c] =>
                  /\ Len(CallsOf(c, "onError")) = 1
                  /\ CallsOf(c, "onError")[1].arg
                       = TrimStart(substring(LastDecoded(c), Len(Sentinel)))

(***************************************************************************)
(* C7.  For a call with streaming disabled whose POST succeeded, once the  *)
(* call has finished the value send resolved to, the response text of the  *)
(* hook and the argument of onComplete are the same text.  Stated for the  *)
(* calls that end at the end of the stream of a conforming reader.         *)
(***************************************************************************)
C7_BatchedValuesCoincide ==
    \A c \in Calls :
        /\ ConsumerTerminated(c) /\ exit[c] = "eos"
        /\ ~stream[c] /\ ConformingReader(c)
        => /\ returned[c].kind = "text"
           /\ returned[c].text = response
           /\ onComplete[c] =>
                 /\ Len(CallsOf(c, "onComplete")) = 1
                 /\ CallsOf(c, "onComplete")[1].arg = returned[c].text

(***************************************************************************)
(* C8.  In streaming mode, one call at a time: after each chunk the        *)
(* response text is the concatenation, in order, of the decoded chunks     *)
(* read so far by the call, and while the call reads the response text     *)
(* only grows: each value is a prefix of the next.                         *)
(***************************************************************************)
C8_StreamedResponseIsConcatenation ==
    /\ [](\A c \in Calls :
            stream[c] /\ (pc[c] = "reading" \/ ConsumerTerminated(c)) =>
                response = DecodedConcat(reads[c]))
    /\ [][\A c \in Calls :
            stream[c] /\ pc[c] = "reading" => IsPrefix(response, response')]_vars

\* a streaming call that has read two chunks and is still reading
C8_Witness ==
    \E c \in Calls :
        /\ stream[c] /\ pc[c] = "reading"
        /\ Len(reads[c]) = 2
        /\ response = decode(reads[c][1].value) \o decode(reads[c][2].value)
        /\ Len(response) > Len(decode(reads[c][1].value))

(***************************************************************************)
(* C9.  A stream that ends with end-of-stream, whose text contains no      *)
(* "Error:", read without abort, stop or read failure, ends Completed:     *)
(* readStream returns the concatenation of the decoded chunks (send too,   *)
(* when not streaming), onComplete is called once with it, onError is not  *)
(* called, the error field is not written, and idle went from false to     *)
(* true exactly once.                                                      *)
(***************************************************************************)
C9_CleanStreamCompletes ==
    \A c \in Calls :
        /\ pc[c] = "done" /\ reads[c] # <<>>
        /\ reads[c][Len(reads[c])].done
        /\ ~includes(DecodedConcat(reads[c]), Sentinel)
        /\ ~aborted[c] /\ ~stopped[c]
        => /\ exit[c] = "eos"
           /\ result[c] = DecodedConcat(reads[c])
           /\ ~stream[c] =>
                 returned[c] = [kind |-> "text", text |-> DecodedConcat(reads[c])]
           /\ CallsOf(c, "onComplete") =
                 IF onComplete[c]
                 THEN <<Callback("onComplete", DecodedConcat(reads[c]), TRUE)>>
                 ELSE <<>>
           /\ CallsOf(c, "onError") = <<>>
           /\ ~errorWritten[c] /\ errorInRead[c] = <<>>
           /\ idle /\ idleRises[c] = 1

\* "caf", 0xC3 then 0xA9 then end of stream, read to the end undisturbed
C9_Witness ==
    \E c \in Calls :
        /\ pc[c] = "done" /\ exit[c] = "eos"
        /\ ~aborted[c] /\ ~stopped[c] /\ onComplete[c] /\ onError[c]
        /\ reads[c] = <<ReadResult(ChunkCaf, FALSE), ReadResult(ChunkA9, FALSE),
                        ReadResult(NoValue, TRUE)>>
        /\ idleRises[c] = 1

(***************************************************************************)
(* C10.  Cancellation is not reported as an error: a call that ended       *)
(* because its signal was aborted (seen by the loop, or surfaced as an     *)
(* AbortError by the pending POST or the pending read) has not called      *)
(* onError and has not written the error field; idle is true again and     *)
(* onComplete got the text accumulated so far.                             *)
(***************************************************************************)
C10_CancellationIsNotAnError ==
    \A c \in Calls :
        pc[c] = "done" /\ exit[c] \in {"abortTop", "abortError", "fetchAbortError"}
        => /\ CallsOf(c, "onError") = <<>>
           /\ ~errorWritten[c]
           /\ idle
           /\ onComplete[c] =>
                 CallsOf(c, "onComplete")
                    = <<Callback("onComplete", result[c], TRUE)>>

\* the ways a call ends because its signal was aborted
CancelExits == {"abortTop", "abortError", "fetchAbortError"}

\* the bytes of all reads of call c, in order
RECURSIVE BytesConcat(_)
BytesConcat(rs) ==
    IF rs = <<>> THEN <<>> ELSE Head(rs).value \o BytesConcat(Tail(rs))

(***************************************************************************)
(* C11.  A cancelled call's accumulated text, which readStream returns and *)
(* onComplete gets, is the concatenation of the chunks processed before    *)
(* the loop saw the signal; when the call was cancelled before any chunk   *)
(* was read, that text is empty, idle is true and onComplete got "".       *)
(***************************************************************************)
C11_CancelledTextIsChunksProcessed ==
    \A c \in Calls :
        pc[c] = "done" /\ exit[c] \in CancelExits =>
            /\ result[c] = DecodedConcat(reads[c])
            /\ onComplete[c] =>
                  CallsOf(c, "onComplete")
                     = <<Callback("onComplete", DecodedConcat(reads[c]), TRUE)>>
            /\ reads[c] = <<>> => result[c] = <<>> /\ idle

(***************************************************************************)
(* C12.  When the POST fails (response not ok, or fetch rejects with a     *)
(* transport error) no body is read, the error field holds a network      *)
(* error text with the status code and text or the underlying message,     *)
(* onError, if supplied, got that text, send resolved to undefined, and    *)
(* idle is true again.                                                     *)
(***************************************************************************)
C12_FailedPostReportedAndIdle ==
    \A c \in Calls :
        pc[c] = "done" /\ exit[c] \in {"fetchNotOk", "fetchThrows"} =>
            /\ reads[c] = <<>>
            /\ exit[c] = "fetchNotOk" =>
                  \E r \in FailedResponses :
                      /\ includes(error, NumToString(r.status))
                      /\ includes(error, r.statusText)
            /\ exit[c] = "fetchThrows" =>
                  \E e \in FetchErrors : includes(error, e.message)
            /\ onError[c] => Len(CallsOf(c, "onError")) = 1
                             /\ CallsOf(c, "onError")[1].arg = error
            /\ returned[c].kind = "undefined"
            /\ idle

(***************************************************************************)
(* C13.  send never rejects: whatever the POST and the stream do (response *)
(* not ok, transport exception, read exception, sentinel, abort), the      *)
(* promise of a finished call has resolved, and a failure shows in the     *)
(* error field and the onError callback only.                             *)
(***************************************************************************)
C13_SendAlwaysResolves ==
    \A c \in Calls :
        /\ returned[c].kind \in {"pending", "reader", "text", "undefined"}
        /\ pc[c] = "done" => returned[c].kind # "pending"
        /\ pc[c] = "done"
           /\ exit[c] \in {"fetchNotOk", "fetchThrows", "fetchAbortError",
                           "readError"}
           => /\ errorWritten[c]
              /\ onError[c] => Len(CallsOf(c, "onError")) = 1

\* calls that failed in each way and resolved: a batched call whose read
\* threw resolved to its text
C13_Witness ==
    \E c \in Calls :
        /\ pc[c] = "done" /\ exit[c] = "readError" /\ ~stream[c]
        /\ returned[c].kind = "text" /\ errorWritten[c]

(***************************************************************************)
(* C14.  stop(handle) with the handle of a call in flight aborts that      *)
(* handle's signal and sets idle true in one step, while the call's loop   *)
(* has not moved; the response text, the error field and the correlation   *)
(* id are as before.                                                       *)
(***************************************************************************)
C14_StopAbortsAndSetsIdleOnly ==
    [][\A c \in Calls :
          Stop(c) =>
             /\ aborted'[c] /\ idle'
             /\ pc' = pc /\ reads' = reads /\ callbacks' = callbacks
             /\ response' = response
             /\ error' = error
             /\ lastCallId' = lastCallId]_vars

\* a streaming call stopped after its first chunk, still reading
C14_Witness ==
    \E c \in Calls :
        /\ pc[c] = "reading" /\ stopped[c] /\ aborted[c] /\ idle
        /\ stream[c] /\ response # <<>> /\ lastCallId # ""

(***************************************************************************)
(* C15.  Decoding does not depend on where the chunks are cut: the final   *)
(* accumulated text of a stream read to its end is the decoding of all its *)
(* bytes together; a character whose bytes lie in two chunks is that       *)
(* character.                                                              *)
(***************************************************************************)
C15_DecodingIgnoresChunkBoundaries ==
    \A c \in Calls :
        ConsumerTerminated(c) /\ exit[c] = "eos" /\ ConformingReader(c) =>
            result[c] = decode(BytesConcat(reads[c]))

(***************************************************************************)
(* C16.  When useLLM has run: with an ambient configuration it is the one  *)
(* used, whatever the options; without one the options are used; with      *)
(* neither useLLM threw, and no send or stop was ever made on that hook.   *)
(* Before and without a successful construction no call state has moved.   *)
(***************************************************************************)
C16_AmbientThenOptionsElseThrow ==
    /\ hook # "unconstructed" =>
          /\ ambient # Undefined => hook = "ready" /\ context = ambient
          /\ ambient = Undefined /\ options # Undefined =>
                hook = "ready" /\ context = options
          /\ ambient = Undefined /\ options = Undefined => hook = "threw"
    /\ hook # "ready" =>
          /\ \A c \in Calls : pc[c] = "free" /\ ~stopped[c]
          /\ idle /\ response = <<>> /\ error = <<>>

\* a hook built inside a provider and given other options, which has sent
C16_Witness ==
    /\ hook = "ready" /\ ambient # Undefined /\ options # Undefined
    /\ ambient # options /\ context = ambient
    /\ \E c \in Calls : pc[c] = "done"

(***************************************************************************)
(* C17.  In streaming mode send resolves with the reader in the step in    *)
(* which the POST succeeds and readStream is started, before any read has  *)
(* settled: at that moment idle is false and the call is reading.          *)
(***************************************************************************)
C17_StreamingSendResolvesWhileReading ==
    [][\A c \in Calls :
          returned[c].kind = "pending" /\ returned'[c].kind = "reader" =>
             /\ pc[c] = "fetching" /\ reads'[c] = <<>>
             /\ ~idle'
             /\ pc'[c] = "reading"]_vars

(***************************************************************************)
(* C17, amended.  As C17 when the signal is not aborted at that step; when *)
(* it is, readStream has run to its end inside the same step, and send     *)
(* resolves with the reader of a call that ended as aborted, idle true.    *)
(***************************************************************************)
C17_StreamingSendResolvesAtStart ==
    /\ [](\A c \in Calls :
             stream[c] /\ pc[c] = "reading" => returned[c].kind = "reader")
    /\ [][\A c \in Calls :
             returned[c].kind = "pending" /\ returned'[c].kind = "reader" =>
                /\ pc[c] = "fetching" /\ reads'[c] = <<>>
                /\ IF aborted[c]
                   THEN pc'[c] = "done" /\ exit'[c] = "abortTop" /\ idle'
                   ELSE pc'[c] = "reading" /\ ~idle']_vars

\* send has resolved with the reader, no read has settled, idle is false
C17_Witness ==
    \E c \in Calls :
        /\ stream[c] /\ pc[c] = "reading" /\ reads[c] = <<>>
        /\ returned[c].kind = "reader" /\ ~idle /\ ~aborted[c]

(***************************************************************************)
(* C18.  Once the signal is aborted the loop starts no new read: the read  *)
(* that was pending may settle, and its chunk be appended and published,   *)
(* and in that same step the call ends; when it ends at the check at the   *)
(* top of the loop the reader has been cancelled.  A call whose signal is  *)
(* aborted before its first read ends without any read.                    *)
(***************************************************************************)
C18_NoReadStartedAfterAbort ==
    /\ [](\A c \in Calls :
             exit[c] = "abortTop" => readerCancelled[c] /\ aborted[c])
    /\ [][\A c \in Calls :
             /\ aborted[c] /\ pc[c] = "reading" /\ reads'[c] # reads[c] =>
                   /\ pc'[c] = "done"
                   /\ Len(reads'[c]) = Len(reads[c]) + 1
             /\ aborted[c] /\ pc[c] = "fetching" /\ pc'[c] # "fetching" =>
                   pc'[c] = "done" /\ reads'[c] = <<>>]_vars

\* a call aborted while its second read was pending, whose chunk was still
\* appended before the loop ended at its top
C18_Witness ==
    \E c \in Calls :
        /\ pc[c] = "done" /\ exit[c] = "abortTop" /\ readerCancelled[c]
        /\ Len(reads[c]) = 2 /\ result[c] = DecodedConcat(reads[c])
        /\ stream[c] /\ response = result[c]

(***************************************************************************)
(* C19.  The step that starts a call leaves the response text empty and    *)
(* idle false, before the request is made; after the first chunk of a      *)
(* streaming call the response text is that chunk alone, decoded.          *)
(***************************************************************************)
C19_SendResetsResponseAndIdle ==
    /\ [](\A c \in Calls :
             /\ pc[c] = "fetching" => response = <<>> /\ (~stopped[c] => ~idle)
             /\ stream[c] /\ pc[c] \in {"reading", "done"} /\ Len(reads[c]) = 1
                => response = decode(reads[c][1].value))
    /\ [][\A c \in Calls :
             pc[c] # "fetching" /\ pc'[c] = "fetching" =>
                response' = <<>> /\ ~idle']_vars

\* a call that follows one which left text and an error: after its first
\* chunk the response text is that chunk
C19_Witness ==
    \E c \in Calls :
        /\ stream[c] /\ pc[c] = "reading" /\ Len(reads[c]) = 1
        /\ response = decode(ChunkOrX)
        /\ error = SentinelRemainder(decode(ChunkErrorRateLimited))

(***************************************************************************)
(* C20.  lastCallId is written only in the step in which a POST succeeds:  *)
(* to the x-callId header, or to "" when the header is absent, and before  *)
(* any read of that call has settled.  Every other step, a failed POST     *)
(* among them, leaves it as it was.                                        *)
(***************************************************************************)
C20_CallIdWrittenOnPostSuccessOnly ==
    [][/\ \A c \in Calls, h \in CallIdHeaders :
             FetchOk(c, h) =>
                /\ lastCallId' = (IF h = {} THEN "" ELSE CHOOSE x \in h : TRUE)
                /\ reads[c] = <<>> /\ reads'[c] = <<>>
       /\ (\A c \in Calls :
              pc[c] = "fetching" =>
                 \/ pc'[c] = "fetching"
                 \/ exit'[c] \in {"fetchNotOk", "fetchThrows",
                                  "fetchAbortError"})
          => lastCallId' = lastCallId]_vars

\* a call whose POST failed after a call that got the id "call-1"
C20_Witness ==
    \E c \in Calls :
        /\ pc[c] = "done" /\ exit[c] \in {"fetchNotOk", "fetchThrows"}
        /\ lastCallId = "call-1"

(***************************************************************************)
(* C21.  A call whose readStream has ended stays as it ended: no read is   *)
(* added, its text, exit and callbacks do not change, the response text is *)
(* not written, and its slot moves only when a new send takes it.  A chunk *)
(* that starts with the sentinel, and a read that reports done, are the    *)
(* last read of their call, and the call has ended with them.              *)
(***************************************************************************)
C21_TerminalStatesAbsorbing ==
    /\ [](\A c \in Calls : \A i \in DOMAIN reads[c] :
             \/ startsWith(decode(reads[c][i].value), Sentinel)
             \/ reads[c][i].done
             => /\ i = Len(reads[c])
                /\ ConsumerTerminated(c)
                /\ startsWith(decode(reads[c][i].value), Sentinel)
                      => exit[c] = "sentinel")
    /\ [][\A c \in Calls :
             ConsumerTerminated(c) =>
                IF pc'[c] = "done"
                THEN /\ reads'[c] = reads[c] /\ exit'[c] = exit[c]
                     /\ result'[c] = result[c]
                     /\ callbacks'[c] = callbacks[c]
                     /\ returned'[c] = returned[c]
                     /\ response' = response
                ELSE pc'[c] = "fetching" /\ reads'[c] = <<>>]_vars

\* a call that ended on a sentinel in its second chunk
C21_Witness ==
    \E c \in Calls :
        /\ ConsumerTerminated(c) /\ exit[c] = "sentinel"
        /\ Len(reads[c]) = 2 /\ ~reads[c][2].done

(***************************************************************************)
(* C22.  When a read rejects with an exception other than AbortError the   *)
(* call ends with the error field holding a text that contains the         *)
(* exception's message, idle true, onError called once with that text and  *)
(* onComplete called with the text of the chunks read before.  When it     *)
(* rejects with AbortError the call ends with no error recorded.           *)
(***************************************************************************)
C22_ReadExceptionReported ==
    \A c \in Calls :
        /\ pc[c] = "done" /\ exit[c] = "readError" =>
              /\ errorWritten[c] /\ error = errorInRead[c]
              /\ \E e \in ReadErrors :
                    e.name # "AbortError" /\ includes(error, e.message)
              /\ idle
              /\ result[c] = DecodedConcat(reads[c])
              /\ onError[c] =>
                    CallsOf(c, "onError") = <<Callback("onError", error, TRUE)>>
              /\ onComplete[c] =>
                    CallsOf(c, "onComplete")
                       = <<Callback("onComplete", result[c], TRUE)>>
        /\ pc[c] = "done" /\ exit[c] = "abortError" =>
              /\ ~errorWritten[c] /\ errorInRead[c] = <<>>
              /\ CallsOf(c, "onError") = <<>>

\* a read that threw after a chunk, both callbacks supplied
C22_Witness ==
    \E c \in Calls :
        /\ pc[c] = "done" /\ exit[c] = "readError" /\ reads[c] # <<>>
        /\ onError[c] /\ onComplete[c] /\ Len(callbacks[c]) = 2

(***************************************************************************)
(* C23.  On every way readStream ends the reader has been cancelled, and   *)
(* when it ends because of the caller's abort the lock has been released.  *)
(* The call that ends on a chunk that is the sentinel and nothing more is  *)
(* left aside here.                                                        *)
(***************************************************************************)
C23_ReaderCancelledOnEveryExit ==
    \A c \in Calls :
        ConsumerTerminated(c)
        /\ ~(exit[c] = "sentinel" /\ LastDecoded(c) = Sentinel) =>
            /\ readerCancelled[c]
            /\ exit[c] \in {"abortTop", "abortError"} => lockReleased[c]

(***************************************************************************)
(* C24.  After a later send has started, no step of an earlier call that   *)
(* is still in flight writes the response text or the idle flag.           *)
(***************************************************************************)
C24_OnlyTheLatestCallWrites ==
    [][\A c \in Calls :
          /\ InFlight(c) /\ latest # c /\ latest' = latest
          /\ pc'[c] # pc[c] \/ reads'[c] # reads[c]
          => response' = response /\ idle' = idle]_vars

(***************************************************************************)
(* C25.  While one call is reading, a second send can be made and both     *)
(* calls go on: every chunk that a streaming call reads, the earlier call  *)
(* as well as the later, is published as that call's accumulated text.     *)
(***************************************************************************)
C25_OverlappingCallsBothPublish ==
    /\ [](\A c \in Calls :
             pc[c] = "reading" /\ (\E d \in Calls : ~InFlight(d)) =>
                ENABLED (\E d \in Calls, s \in BOOLEAN : Send(d, s, TRUE, TRUE)))
    /\ [][\A c \in Calls :
             stream[c] /\ pc[c] = "reading" /\ reads'[c] # reads[c] =>
                response' = result'[c]]_vars

\* after the second call's reset and first chunk, the response text is the
\* first call's text, which no stream of the second call begins with
C25_Witness ==
    /\ latest = 2 /\ pc[1] = "reading" /\ pc[2] = "reading"
    /\ stream[1] /\ stream[2] /\ reads[2] # <<>> /\ Len(reads[1]) = 2
    /\ response = result[1]
    /\ response[1] # result[2][1]

(***************************************************************************)
(* C26.  A read that reports done together with a chunk that starts with   *)
(* the sentinel ends the call on the sentinel, with the error recorded     *)
(* when text follows the sentinel; a read that reports done with no value  *)
(* ends the call as completed, never on the sentinel.                      *)
(***************************************************************************)
C26_SentinelBeforeEndOfStream ==
    \A c \in Calls :
        reads[c] # <<>> /\ reads[c][Len(reads[c])].done =>
            /\ ConsumerTerminated(c) /\ exit[c] \in {"sentinel", "eos"}
            /\ exit[c] = "sentinel" <=> startsWith(LastDecoded(c), Sentinel)
            /\ exit[c] = "sentinel" /\ Len(LastDecoded(c)) > Len(Sentinel)
                  => errorWritten[c] /\ error = SentinelRemainder(LastDecoded(c))
            /\ reads[c][Len(reads[c])].value = NoValue
                  => exit[c] = "eos" /\ ~errorWritten[c]

\* the last read carried the sentinel and done at once
C26_Witness ==
    \E c \in Calls :
        /\ reads[c] # <<>> /\ reads[c][Len(reads[c])].done
        /\ exit[c] = "sentinel" /\ errorWritten[c]

(***************************************************************************)
(* C27.  When the signal of a call that is reading is aborted and its      *)
(* pending read settles, the call ends, idle is true and onComplete, when  *)
(* supplied, has been called.  Nothing else ends a call that is reading:   *)
(* it leaves that state only in a step in which a read settles, and until  *)
(* then idle becomes true only by a stop.                                  *)
(***************************************************************************)
C27_CancellationUnblocksTheLoop ==
    /\ \A c \in Calls :
          (pc[c] = "reading" /\ aborted[c])
             ~> (/\ ConsumerTerminated(c) /\ idle
                 /\ onComplete[c] => Len(CallsOf(c, "onComplete")) = 1)
    /\ [][\A c \in Calls :
             pc[c] = "reading" =>
                /\ pc'[c] # "reading" =>
                      \/ reads'[c] # reads[c]
                      \/ exit'[c] \in {"readError", "abortError"}
                /\ ~idle /\ idle' => pc'[c] = "done" \/ stopped'[c]]_vars

\* a call aborted while reading, ended at the top of the loop, onComplete
\* called
C27_Witness ==
    \E c \in Calls :
        /\ ConsumerTerminated(c) /\ aborted[c] /\ ~stopped[c] /\ idle
        /\ reads[c] # <<>> /\ onComplete[c]
        /\ Len(CallsOf(c, "onComplete")) = 1

(***************************************************************************)
(* C28.  In the body of the request a value that is not configured has no  *)
(* key, except serviceId and agentId, which are always there and null when *)
(* unset: without a conversation id there is no conversationId key,        *)
(* serviceId is null without a service, and customer is the empty object   *)
(* when the configuration has no customer.                                 *)
(***************************************************************************)
C28_PayloadOmitsUnconfiguredKeys ==
    \A r \in request :
        LET cfg == CHOOSE x \in context : TRUE
        IN  /\ r.conversation = Null => "conversationId" \notin DOMAIN r.body
            /\ "serviceId" \in DOMAIN r.body
            /\ r.service = Null => r.body.serviceId = Null
            /\ "agentId" \in DOMAIN r.body
            /\ cfg.agent \in {Undefined, Null} => r.body.agentId = Null
            /\ cfg.customer = Undefined => r.body.customer = {"{}"}

(***************************************************************************)
(* C29.  The step that starts a call leaves the error field as it is; the  *)
(* error field changes only in the step in which a call ends with an error *)
(* of its own, and then to a text that is not empty.  So a call that ends  *)
(* without an error after one that recorded an error still shows it.       *)
(***************************************************************************)
C29_ErrorFieldNeverCleared ==
    [][/\ \A c \in Calls :
             pc[c] # "fetching" /\ pc'[c] = "fetching" => error' = error
       /\ error' # error =>
             /\ error' # <<>>
             /\ \E c \in Calls :
                   /\ InFlight(c) /\ pc'[c] = "done" /\ errorWritten'[c]
                   /\ error' \in {errorInFetch'[c], errorInRead'[c]}]_vars

\* a call that completed with no error of its own, the error field still
\* holding the text an earlier call recorded
C29_Witness ==
    \E c \in Calls :
        /\ pc[c] = "done" /\ exit[c] = "eos" /\ ~errorWritten[c]
        /\ reads[c] # <<>> /\ error # <<>>

(***************************************************************************)
(* C30.  A call that ends on a chunk that is exactly "Error:" recorded no  *)
(* error: the error field was not written, onError was not called, the     *)
(* end of readStream did not cancel the reader, and onComplete, when       *)
(* supplied, was called once with the accumulated text.                    *)
(***************************************************************************)
C30_BareSentinelIsSilent ==
    \A c \in Calls :
        ConsumerTerminated(c) /\ exit[c] = "sentinel"
        /\ LastDecoded(c) = Sentinel =>
            /\ ~errorWritten[c] /\ errorInRead[c] = <<>>
            /\ CallsOf(c, "onError") = <<>>
            /\ ~readerCancelled[c]
            /\ result[c] = DecodedConcat(reads[c])
            /\ onComplete[c] =>
                  callbacks[c] = <<Callback("onComplete", result[c], TRUE)>>

\* the chunk "Error:" after another chunk, both callbacks supplied, and the
\* error field still empty
C30_Witness ==
    \E c \in Calls :
        /\ ConsumerTerminated(c) /\ exit[c] = "sentinel"
        /\ LastDecoded(c) = Sentinel /\ Len(reads[c]) = 2
        /\ onComplete[c] /\ onError[c] /\ error = <<>> /\ idle

(***************************************************************************)
(* C31.  A stop leaves every call where it is: stop(null), or stop with a  *)
(* controller no call was given, sets idle true and nothing else, and      *)
(* stop with the call's controller aborts its signal besides.  While idle  *)
(* is true after a stop and a streaming call is still reading, a further   *)
(* chunk can arrive and change the response text: with the signal not      *)
(* aborted the call then reads on, and with it aborted this is the chunk   *)
(* of the read that was pending.                                           *)
(***************************************************************************)
C31_StopDoesNotEndTheCall ==
    /\ [](\A c \in Calls :
             /\ pc[c] = "reading" /\ stream[c] /\ idle /\ stopped[c]
             /\ Len(reads[c]) < MaxChunks
             => ENABLED (\E v \in Chunks :
                            /\ Read(c, v, FALSE)
                            /\ response' # response /\ idle'
                            /\ ~aborted[c] => pc'[c] = "reading"))
    /\ [][/\ StopNull => idle' /\ pc' = pc /\ aborted' = aborted
                         /\ response' = response
          /\ \A c \in Calls : Stop(c) => idle' /\ pc' = pc]_vars

\* idle is true after stop(null) while the call, which has published text,
\* is still reading with its signal not aborted
C31_Witness ==
    \E c \in Calls :
        /\ pc[c] = "reading" /\ stream[c] /\ idle /\ stopped[c] /\ ~aborted[c]
        /\ reads[c] # <<>> /\ response = result[c]

(***************************************************************************)
(* C32.  The end of a call's readStream sets idle true whatever the other  *)
(* calls are doing: also while a call that was started later is waiting    *)
(* for its POST or reading.                                                *)
(***************************************************************************)
C32_EarlierCallSetsIdleTrue ==
    [][\A c \in Calls :
          InFlight(c) /\ pc'[c] = "done" /\ exit'[c] \in ConsumerExits =>
             idle']_vars

\* the earlier call has ended, the later one is reading, and idle is true
C32_Witness ==
    /\ latest = 2 /\ ConsumerTerminated(1) /\ pc[2] = "reading"
    /\ reads[2] # <<>> /\ idle

(***************************************************************************)
(* C33.  At the end of readStream, on every exit: each callback saw idle   *)
(* true; onError was called, once, exactly when an error text was recorded *)
(* and then the error field holds it and the reader was cancelled;         *)
(* onComplete, when supplied, is the last call, and onError comes before   *)
(* it.                                                                     *)
(***************************************************************************)
C33_FinalizationOrder ==
    \A c \in Calls :
        ConsumerTerminated(c) =>
            /\ \A i \in DOMAIN callbacks[c] : callbacks[c][i].idle
            /\ onError[c] =>
                  Len(CallsOf(c, "onError")) = (IF errorWritten[c] THEN 1 ELSE 0)
            /\ errorWritten[c] <=> errorInRead[c] # <<>>
            /\ errorWritten[c] => error = errorInRead[c] /\ readerCancelled[c]
            /\ \A i \in DOMAIN callbacks[c] :
                  /\ callbacks[c][i].cb = "onComplete" => i = Len(callbacks[c])
                  /\ callbacks[c][i].cb = "onError" =>
                        /\ i = 1 /\ callbacks[c][i].arg = errorInRead[c]
                        /\ onComplete[c] => Len(callbacks[c]) = 2

\* both callbacks were called, onError first, each with idle true
C33_Witness ==
    \E c \in Calls :
        /\ ConsumerTerminated(c) /\ Len(callbacks[c]) = 2
        /\ callbacks[c][1].cb = "onError" /\ callbacks[c][2].cb = "onComplete"
        /\ callbacks[c][1].idle /\ callbacks[c][2].idle /\ ~stopped[c]

=============================================================================
